---- MODULE Spec2Model ----
(***************************************************************************)
(* A model of the object pool allocator (opalloc): the low-level engine    *)
(* op_ll_initialize_allocator / op_ll_allocate_object /                    *)
(* op_ll_deallocate_object / op_ll_deinitialize_allocator /                *)
(* op_ll_get_allocator_stats with grow_pool and fill_chunks, over an       *)
(* explicit heap (calloc / realloc / free) whose requests may fail.        *)
(***************************************************************************)
EXTENDS Integers, Sequences, FiniteSets, TLC

(* ------------------------------ bounds --------------------------------- *)
\* largest initial_count passed to initialize
MaxInit == 2
\* largest maximum_objects a call may grow the directory to
MaxCap == 4
\* largest object_size passed to initialize
MaxObjectSize == 1
\* longest prefix of failing heap requests within one call
MaxOracle == 3

(* ------------------------- program constants --------------------------- *)
\* sizeof(_ab_t): the in_use flag that precedes the payload
SizeofAb == 4
\* sizeof(_ab_t *): one directory entry
SizeofPtr == 8
\* sizeof(struct _op_allocator)
SizeofHandle == 40

(* ------------------------------ state ---------------------------------- *)
VARIABLES
    allocator,   \* the caller's op_allocator value: 0 (NULL) or the handle's block
    H,           \* the fields of struct _op_allocator
    dir,         \* the directory allocator->pool[0 .. maximum_objects-1] (1-based here)
    heap,        \* every block ever obtained: kind, entries, requested bytes, live, cells
    held,        \* object pointers returned by allocate and not yet deallocated
    ret,         \* the last call: its name, pointer result and stats result
    errs,        \* the source lines at which the last call invoked op_error_handler
    fault,       \* "none", or the undefined behaviour the last call ran into
    uaf,         \* TRUE once released memory has been read or written
    failedAlloc, \* TRUE once allocate returned NULL on the initialized handle
    grows,       \* grow_pool calls made by the last call
    scans,       \* directory scans made by the last call
    growOK,      \* grow_pool calls that returned true since initialize
    badFree,     \* TRUE once free() got an address that is not the start of a block
    doubleFree,  \* TRUE once free() got a block that was already released
    freeLog,     \* the directory offsets whose entry the last deinitialize passed to free()
    firstAllocs, \* allocate calls on the handle so far, while no deallocate was made; else -1
    pool2,       \* a second handle of the same caller: its op_allocator value, the
                 \* fields of its record and its directory (its blocks are in heap)
    hl           \* the allocator declared with OP_HL_DECLARE_ALLOCATOR: the static flag
                 \* of allocate_TYPE and a record of what the wrappers did

vars == <<allocator, H, dir, heap, held, ret, errs, fault, uaf, failedAlloc,
          grows, scans, growOK, badFree, doubleFree, freeLog, firstAllocs, pool2,
          hl>>

(* ----------------------------- pointers -------------------------------- *)
\* A pointer is <<block, entry, byte offset in the entry>>; block 0 is NULL.
NULL == <<0, 0, 0>>

\* &entry->data: the payload follows the in_use flag
DataOf(e) == <<e[1], e[2], e[3] + SizeofAb>>

\* the entry whose payload p is
EntryOf(p) == <<p[1], p[2], p[3] - SizeofAb>>

\* a pointer that belongs to no pool
Foreign == <<0, 0, 64>>

Modes == {"OP_DOUBLING_INDIVIDUAL", "OP_DOUBLING_CHUNK",
          "OP_LINEAR_INDIVIDUAL", "OP_LINEAR_CHUNK"}

NoHandle == [object_size |-> 0, initial_count |-> 0, maximum_objects |-> 0,
             use_chunks |-> FALSE, use_linear |-> FALSE, initialized |-> FALSE,
             pool |-> 0]

NoStats == [object_size |-> 0, maximum_objects |-> 0, active_objects |-> 0]

\* prev: the payload a returned object held before allocate cleared it;
\* failed: some heap request of the call failed; arg: the kind of object that
\* deallocate was given ("null", "foreign", "free": its slot is not in use,
\* "in_use")
NoRet == [op |-> "none", ptr |-> NULL, stats |-> NoStats, prev |-> 0,
          failed |-> FALSE, arg |-> "none"]

Ret(op, ptr) == [NoRet EXCEPT !.op = op, !.ptr = ptr]

\* calloc'ed memory: flag NOT_IN_USE (0), payload all zero
ZeroCell == [in_use |-> FALSE, data |-> 0]

(* ------------------------------- heap ---------------------------------- *)
\* The k-th heap request of a call fails iff the oracle says so; past the
\* oracle's end requests succeed.
Succeeds(o, k) == k > Len(o) \/ o[k]

\* an oracle is empty or ends with a failure (a trailing success changes nothing)
Oracles == {o \in UNION {[1..n -> BOOLEAN] : n \in 0..MaxOracle} :
               Len(o) = 0 \/ ~o[Len(o)]}

\* some heap request of a call that consumed the whole oracle failed
Failed(o) == \E j \in 1..Len(o) : ~o[j]

\* The machine state a call works on.
Start(op) == [H |-> H, dir |-> dir, heap |-> heap, errs |-> {}, fault |-> "none",
              k |-> 0, res |-> 0, rv |-> NULL, ok |-> FALSE, grows |-> 0, scans |-> 0,
              growOK |-> growOK, badFree |-> badFree, doubleFree |-> doubleFree,
              freeLog |-> <<>>, op |-> op, a |-> 0, stats |-> NoStats, prev |-> 0,
              base |-> 0]

\* The heap hands out fresh addresses; which ones is its own business, so
\* each block is named by what it is for: the handle record, the directory
\* (two addresses, so that realloc can move it), and the block materialized
\* for directory offset i (an entry, or the chunk that starts there).  The
\* names are relative to st.base, which tells the requests of the two handles
\* apart: the heap never hands out an address twice.
HandleBlock == 1
DirBlock == 2
MovedDirBlock == 3
SlotBlock(i) == MovedDirBlock + 1 + i

Block(kind, n, bytes, at, ncells) ==
    [kind |-> kind, n |-> n, bytes |-> bytes, at |-> at, live |-> TRUE,
     cells |-> [j \in 1..ncells |-> ZeroCell]]

\* calloc: a fresh zeroed block blk at address b, or NULL (res = 0)
Calloc(st, o, b, blk) ==
    IF Succeeds(o, st.k + 1)
    THEN [st EXCEPT !.k = @ + 1,
                    !.heap = ((st.base + b) :> blk) @@ @,
                    !.res = st.base + b]
    ELSE [st EXCEPT !.k = @ + 1, !.res = 0]

\* realloc(pool, bytes): NULL and the old block untouched on failure; on success
\* the block extended in place or (moved) a new block with the old one released
Realloc(st, o, moved, b, n, bytes) ==
    IF ~Succeeds(o, st.k + 1) THEN [st EXCEPT !.k = @ + 1, !.res = 0]
    ELSE IF b # 0 /\ ~moved
    THEN [st EXCEPT !.k = @ + 1, !.heap[b].n = n, !.heap[b].bytes = bytes, !.res = b]
    ELSE LET nb == st.base + (IF b = st.base + DirBlock THEN MovedDirBlock ELSE DirBlock)
         IN  [st EXCEPT !.k = @ + 1,
                        !.heap = (nb :> Block("directory", n, bytes, 0, 0)) @@
                                 (IF b = 0 THEN @ ELSE [@ EXCEPT ![b].live = FALSE]),
                        !.res = nb]

\* free(NULL) does nothing; free of a block start releases it, and what the
\* block held is no longer defined
FreeBlock(st, b) ==
    IF b = 0 THEN st
    ELSE IF ~st.heap[b].live THEN [st EXCEPT !.doubleFree = TRUE]
    ELSE [st EXCEPT !.heap[b].live = FALSE, !.heap[b].cells = <<>>]

\* free(pool[i]) for an entry pointer
FreeEntry(st, e) ==
    IF e = NULL THEN st
    ELSE IF e[2] # 1 \/ e[3] # 0 THEN [st EXCEPT !.badFree = TRUE]
    ELSE FreeBlock(st, e[1])

(* ------------------------------ helpers -------------------------------- *)
\* op_error_handler(__FILE__, line, ...): the call is recorded by its line
Report(st, line) == [st EXCEPT !.errs = @ \cup {line}]

\* chunk = calloc(object_count, chunk_size); pool[i + offset] = &chunk[i * entry_size]
fill_chunks(st, o, offset, object_count) ==
    LET entry_size == SizeofAb + st.H.object_size
        chunk_size == object_count * entry_size
        c == Calloc(st, o, SlotBlock(offset),
                    Block("chunk", object_count, object_count * chunk_size,
                          offset, object_count))
    IN  IF c.res # 0
        THEN [c EXCEPT !.dir = [i \in 1..Len(c.dir) |->
                                   IF i > offset /\ i <= offset + object_count
                                   THEN <<c.res, i - offset, 0>> ELSE c.dir[i]],
                       !.ok = TRUE]
        ELSE [Report(c, 333) EXCEPT !.ok = FALSE]

\* the directory grown by initial_count (linear) or doubled
grow_pool(st, o, moved) ==
    LET old_size == st.H.maximum_objects
        grow_size == IF st.H.use_linear THEN st.H.initial_count ELSE old_size
        new_size == IF st.H.use_linear THEN old_size + grow_size ELSE old_size * 2
        r == Realloc(st, o, moved, st.H.pool, new_size, SizeofPtr * new_size)
        g == [r EXCEPT !.grows = @ + 1, !.H.pool = r.res]
    IN  IF g.H.pool # 0
        THEN LET z == [g EXCEPT !.dir = [i \in 1..new_size |->
                                            IF i <= old_size THEN g.dir[i] ELSE NULL],
                                !.H.maximum_objects = new_size]
                 f == IF z.H.use_chunks THEN fill_chunks(z, o, old_size, grow_size)
                      ELSE [z EXCEPT !.ok = TRUE]
             IN  IF f.ok THEN [f EXCEPT !.growOK = @ + 1] ELSE f
        ELSE [Report(g, 377) EXCEPT !.ok = FALSE, !.dir = <<>>]

(* ------------------------- low-level API ------------------------------- *)
Cell(st, e) == st.heap[e[1]].cells[e[2]]

\* Take without the memset: the slot is flagged but keeps what its last holder
\* wrote (the variant C9 has to tell apart from Take)
TakeKeepsPayload(st, e) ==
    [st EXCEPT !.heap[e[1]].cells[e[2]].in_use = TRUE,
               !.rv = DataOf(e),
               !.prev = st.heap[e[1]].cells[e[2]].data]

\* rv = pool[i]->data; memset(rv, 0, object_size); pool[i]->in_use = IN_USE
Take(st, e) ==
    [st EXCEPT !.heap[e[1]].cells[e[2]] = [in_use |-> TRUE, data |-> 0],
               !.rv = DataOf(e),
               !.prev = st.heap[e[1]].cells[e[2]].data]

\* the scan without the in_use test: the first materialized slot is handed out
\* whether or not it is held (the variant C10 has to tell apart from ScanFrom)
RECURSIVE ScanFromAnySlot(_, _, _)
ScanFromAnySlot(st, o, i) ==
    IF i > st.H.maximum_objects THEN st
    ELSE IF st.dir[i] = NULL
    THEN LET c == Calloc(st, o, SlotBlock(i - 1),
                         Block("entry", 1, SizeofAb + st.H.object_size, i - 1, 1))
         IN  IF c.res # 0
             THEN Take([c EXCEPT !.dir[i] = <<c.res, 1, 0>>], <<c.res, 1, 0>>)
             ELSE ScanFromAnySlot(Report(c, 132), o, i + 1)
    ELSE Take(st, st.dir[i])

\* the for loop of op_ll_allocate_object, from index i (1-based)
RECURSIVE ScanFrom(_, _, _)
ScanFrom(st, o, i) ==
    IF i > st.H.maximum_objects THEN st
    ELSE IF st.dir[i] = NULL
    THEN LET c == Calloc(st, o, SlotBlock(i - 1),
                         Block("entry", 1, SizeofAb + st.H.object_size, i - 1, 1))
         IN  IF c.res # 0
             THEN Take([c EXCEPT !.dir[i] = <<c.res, 1, 0>>], <<c.res, 1, 0>>)
             ELSE ScanFrom(Report(c, 132), o, i + 1)
    ELSE IF ~Cell(st, st.dir[i]).in_use
    THEN Take(st, st.dir[i])
    ELSE ScanFrom(st, o, i + 1)

\* retry: scan; if (rv == NULL) { if (grow_pool()) goto retry; else report }
RECURSIVE Retry(_, _, _)
Retry(st, o, moved) ==
    IF st.H.pool = 0 /\ st.H.maximum_objects > 0
    THEN [st EXCEPT !.fault = "null_deref", !.scans = @ + 1]
    ELSE LET s1 == ScanFrom([st EXCEPT !.scans = @ + 1], o, 1)
         IN  IF s1.rv # NULL THEN s1
             ELSE LET g == grow_pool(s1, o, moved)
                  IN  IF g.ok THEN Retry(g, o, moved) ELSE Report(g, 153)

\* allocate without the report at line 164 (the variant C12 has to tell apart from
\* op_ll_allocate_object)
AllocateWithoutFinalReport(st, a, o, moved) ==
    IF a # 0 /\ st.H.initialized THEN Retry(st, o, moved) ELSE Report(st, 159)

op_ll_allocate_object(st, a, o, moved) ==
    LET r == IF a # 0 /\ st.H.initialized THEN Retry(st, o, moved) ELSE Report(st, 159)
    IN  IF r.fault = "none" /\ r.rv = NULL THEN Report(r, 164) ELSE r

\* deallocate that does not scan the directory but clears the flag in front of the
\* payload it is given, whichever pool it belongs to (the variant C17 has to tell
\* apart from FindFrom)
FindByHeader(st, object, ub, i) ==
    LET e == EntryOf(object)
    IN  IF /\ e[1] \in DOMAIN st.heap
           /\ e[2] \in 1..Len(st.heap[e[1]].cells)
        THEN [st EXCEPT !.heap[e[1]].cells[e[2]].in_use = FALSE, !.ok = TRUE]
        ELSE st

\* the for loop of op_ll_deallocate_object; ub: what the member access through a
\* NULL directory entry does (TRUE: it traps; FALSE: it only forms an address)
RECURSIVE FindFrom(_, _, _, _)
FindFrom(st, object, ub, i) ==
    IF i > st.H.maximum_objects THEN st
    ELSE IF st.dir[i] = NULL /\ ub THEN [st EXCEPT !.fault = "null_deref"]
    ELSE IF DataOf(st.dir[i]) = object
    THEN [st EXCEPT !.heap[st.dir[i][1]].cells[st.dir[i][2]].in_use = FALSE, !.ok = TRUE]
    ELSE FindFrom(st, object, ub, i + 1)

\* deallocate that tests its handle only (the variant C14 has to tell apart from
\* op_ll_deallocate_object)
DeallocateWithoutObjectTest(st, a, object, ub) ==
    IF a # 0
    THEN IF st.H.pool = 0 /\ st.H.maximum_objects > 0
         THEN [st EXCEPT !.fault = "null_deref"]
         ELSE FindFrom(st, object, ub, 1)
    ELSE Report(st, 185)

op_ll_deallocate_object(st, a, object, ub) ==
    IF a # 0 /\ object # NULL
    THEN IF st.H.pool = 0 /\ st.H.maximum_objects > 0
         THEN [st EXCEPT !.fault = "null_deref"]
         ELSE FindFrom(st, object, ub, 1)
    ELSE Report(st, 185)

\* free(allocator->pool[i]), i 0-based as in the source
FreeSlot(st, i) == [FreeEntry(st, st.dir[i + 1]) EXCEPT !.freeLog = Append(@, i)]

\* for (i = 0; i < maximum_objects; i += initial_count) free(pool[i])
RECURSIVE FreeLinearChunks(_, _)
FreeLinearChunks(st, i) ==
    IF i < st.H.maximum_objects
    THEN FreeLinearChunks(FreeSlot(st, i), i + st.H.initial_count)
    ELSE st

\* the doubling pool released with the linear stride (the variant C2 has to tell
\* apart from FreeDoublingChunks)
RECURSIVE FreeDoublingChunksByCount(_, _)
FreeDoublingChunksByCount(st, i) ==
    IF i < st.H.maximum_objects
    THEN FreeDoublingChunksByCount(FreeSlot(st, i), i + st.H.initial_count)
    ELSE st

\* for (i = initial_count; i < maximum_objects; i <<= 1) free(pool[i])
RECURSIVE FreeDoublingChunks(_, _)
FreeDoublingChunks(st, i) ==
    IF i < st.H.maximum_objects
    THEN FreeDoublingChunks(FreeSlot(st, i), i * 2)
    ELSE st

\* for (i = 0; i < maximum_objects; i++) free(pool[i])
RECURSIVE FreeIndividual(_, _)
FreeIndividual(st, i) ==
    IF i < st.H.maximum_objects
    THEN FreeIndividual(FreeSlot(st, i), i + 1)
    ELSE st

op_ll_deinitialize_allocator(st, a) ==
    IF a # 0 /\ st.H.initialized
    THEN LET s0 == [st EXCEPT !.H.initialized = FALSE]
         IN  IF s0.H.pool = 0 /\ s0.H.maximum_objects > 0
             THEN [s0 EXCEPT !.fault = "null_deref"]
             ELSE LET s1 == IF s0.H.use_chunks
                            THEN IF s0.H.use_linear
                                 THEN FreeLinearChunks(s0, 0)
                                 ELSE FreeDoublingChunks(FreeSlot(s0, 0),
                                                         s0.H.initial_count)
                            ELSE FreeIndividual(s0, 0)
                  IN  [FreeBlock(FreeBlock(s1, s1.H.pool), a) EXCEPT !.ok = TRUE,
                                                                     !.dir = <<>>]
    ELSE Report(st, 227)

\* for (i = 0; i < maximum_objects && pool[i] != NULL; i++) if in_use: active++
RECURSIVE CountFrom(_, _)
CountFrom(st, i) ==
    IF i > st.H.maximum_objects \/ st.dir[i] = NULL THEN 0
    ELSE (IF Cell(st, st.dir[i]).in_use THEN 1 ELSE 0) + CountFrom(st, i + 1)

\* get_stats that reads allocator->initialized without testing the handle against
\* NULL (the variant C16 has to tell apart from op_ll_get_allocator_stats)
GetStatsWithoutNullTest(st, a) ==
    IF a = 0 THEN [st EXCEPT !.fault = "null_deref"]
    ELSE IF st.H.initialized
    THEN IF st.H.pool = 0 /\ st.H.maximum_objects > 0
         THEN [st EXCEPT !.fault = "null_deref"]
         ELSE [st EXCEPT !.stats = [object_size |-> st.H.object_size,
                                    maximum_objects |-> st.H.maximum_objects,
                                    active_objects |-> CountFrom(st, 1)]]
    ELSE st

op_ll_get_allocator_stats(st, a) ==
    IF a # 0 /\ st.H.initialized
    THEN IF st.H.pool = 0 /\ st.H.maximum_objects > 0
         THEN [st EXCEPT !.fault = "null_deref"]
         ELSE [st EXCEPT !.stats = [object_size |-> st.H.object_size,
                                    maximum_objects |-> st.H.maximum_objects,
                                    active_objects |-> CountFrom(st, 1)]]
    ELSE st

\* initialize that forgets free(rv->pool) when the first chunk cannot be made (the
\* variant C11 has to tell apart from op_ll_initialize_allocator)
InitializeLeakingDirectory(st, object_size, initial_count, mode, o) ==
    LET use_chunks == mode \in {"OP_DOUBLING_CHUNK", "OP_LINEAR_CHUNK"}
        use_linear == mode \in {"OP_LINEAR_INDIVIDUAL", "OP_LINEAR_CHUNK"}
        h == Calloc(st, o, HandleBlock, Block("handle", 1, SizeofHandle, 0, 0))
    IN  IF h.res = 0 THEN Report(h, 306)
        ELSE LET s1 == [h EXCEPT !.H = [object_size |-> object_size,
                                        initial_count |-> initial_count,
                                        maximum_objects |-> initial_count,
                                        use_chunks |-> use_chunks,
                                        use_linear |-> use_linear,
                                        initialized |-> TRUE,
                                        pool |-> 0],
                                 !.a = h.res]
                 d == Calloc(s1, o, DirBlock, Block("directory", initial_count,
                                                    initial_count * SizeofPtr, 0, 0))
                 s2 == [d EXCEPT !.H.pool = d.res,
                                 !.dir = [i \in 1..initial_count |-> NULL]]
             IN  IF d.res = 0
                 THEN [Report(FreeBlock(d, d.a), 301) EXCEPT !.a = 0]
                 ELSE IF use_chunks
                 THEN LET f == fill_chunks(s2, o, 0, s2.H.maximum_objects)
                      IN  IF f.ok THEN f
                          ELSE [FreeBlock(f, f.a) EXCEPT !.a = 0]
                 ELSE s2

op_ll_initialize_allocator(st, object_size, initial_count, mode, o) ==
    LET use_chunks == mode \in {"OP_DOUBLING_CHUNK", "OP_LINEAR_CHUNK"}
        use_linear == mode \in {"OP_LINEAR_INDIVIDUAL", "OP_LINEAR_CHUNK"}
        h == Calloc(st, o, HandleBlock, Block("handle", 1, SizeofHandle, 0, 0))
    IN  IF h.res = 0 THEN Report(h, 306)
        ELSE LET s1 == [h EXCEPT !.H = [object_size |-> object_size,
                                        initial_count |-> initial_count,
                                        maximum_objects |-> initial_count,
                                        use_chunks |-> use_chunks,
                                        use_linear |-> use_linear,
                                        initialized |-> TRUE,
                                        pool |-> 0],
                                 !.a = h.res]
                 d == Calloc(s1, o, DirBlock, Block("directory", initial_count,
                                                    initial_count * SizeofPtr, 0, 0))
                 s2 == [d EXCEPT !.H.pool = d.res,
                                 !.dir = [i \in 1..initial_count |-> NULL]]
             IN  IF d.res = 0
                 THEN [Report(FreeBlock(d, d.a), 301) EXCEPT !.a = 0]
                 ELSE IF use_chunks
                 THEN LET f == fill_chunks(s2, o, 0, s2.H.maximum_objects)
                      IN  IF f.ok THEN f
                          ELSE [FreeBlock(FreeBlock(f, f.H.pool), f.a) EXCEPT !.a = 0]
                 ELSE s2

(* ------------------------------ actions -------------------------------- *)
\* no second handle; with one, its record, its directory, and what the last call on
\* it returned and reported
NoPool == [allocator |-> 0, H |-> NoHandle, dir |-> <<>>, rv |-> NULL,
           stats |-> NoStats, errs |-> {}]

\* OP_HL_DECLARE_ALLOCATOR before any wrapper was called: TYPE_allocator is the
\* caller's allocator (NULL), the static flag "initialized" of allocate_TYPE is
\* false.  made: handles the wrappers created; calls: allocate_TYPE invocations
\* (2: more than one); auto: how many of them called initialize_TYPE_allocator;
\* stale: allocate_TYPE gave the engine a handle that deinitialize had released;
\* mode: the MODE of the declaration
NoHL == [initialized |-> FALSE, made |-> 0, calls |-> 0, auto |-> 0, stale |-> FALSE,
         mode |-> "none"]

Init ==
    /\ allocator = 0
    /\ H = NoHandle
    /\ dir = <<>>
    /\ heap = <<>>
    /\ held = {}
    /\ ret = NoRet
    /\ errs = {}
    /\ fault = "none"
    /\ uaf = FALSE
    /\ failedAlloc = FALSE
    /\ grows = 0
    /\ scans = 0
    /\ growOK = 0
    /\ badFree = FALSE
    /\ doubleFree = FALSE
    /\ freeLog = <<>>
    /\ firstAllocs = 0
    /\ pool2 = NoPool
    /\ hl = NoHL

\* the handle block is still allocated
Live == allocator # 0 /\ heap[allocator].live

\* the handle block was released by deinitialize
Released == allocator # 0 /\ ~heap[allocator].live

\* the caller is between two calls: the last result has been consumed
Idle == fault = "none" /\ ret.op = "none"

\* the bounds of the model
Bounded(st, o, cap) == st.H.maximum_objects <= cap /\ Len(o) <= st.k

\* what every call writes back
Commit(st) ==
    /\ H' = st.H
    /\ dir' = st.dir
    /\ heap' = st.heap
    /\ errs' = st.errs
    /\ fault' = st.fault
    /\ growOK' = st.growOK
    /\ badFree' = st.badFree
    /\ doubleFree' = st.doubleFree

\* the caller creates its pool once, with an initial_count of counts, the heap
\* answering as one of oracles says
InitializeWith(counts, oracles) ==
    /\ Idle
    /\ allocator = 0
    /\ heap = <<>>
    /\ \E object_size \in 1..MaxObjectSize, initial_count \in counts,
          mode \in Modes, o \in oracles :
         LET st == op_ll_initialize_allocator(Start("initialize"), object_size,
                                              initial_count, mode, o)
         IN  /\ Bounded(st, o, MaxCap)
             /\ Commit([st EXCEPT !.growOK = 0,
                                  !.H = IF st.a = 0 THEN NoHandle ELSE @,
                                  !.dir = IF st.a = 0 THEN <<>> ELSE @])
             /\ allocator' = st.a
             /\ ret' = [Ret("initialize", <<st.a, 0, 0>>) EXCEPT !.failed = Failed(o)]
    /\ UNCHANGED <<grows, scans, held, uaf, failedAlloc, freeLog, firstAllocs, pool2, hl>>

Initialize == InitializeWith(1..MaxInit, Oracles)

\* allocate, the pool growing to cap at most, the heap answering as one of oracles
\* says
AllocateWith(cap, oracles) ==
    /\ Idle
    /\ ~Released
    /\ \E o \in oracles, moved \in BOOLEAN :
         LET st == op_ll_allocate_object(Start("allocate"), allocator, o, moved)
         IN  /\ Bounded(st, o, cap)
             /\ moved \/ st.grows > 0
             /\ Commit(st)
             /\ ret' = [Ret("allocate", st.rv) EXCEPT !.prev = st.prev,
                                                      !.failed = Failed(o)]
             /\ held' = IF st.rv # NULL THEN held \cup {st.rv} ELSE held
             /\ failedAlloc' = (failedAlloc \/ (Live /\ st.rv = NULL))
             /\ grows' = st.grows
             /\ scans' = st.scans
    /\ firstAllocs' = IF Live /\ firstAllocs >= 0 THEN firstAllocs + 1 ELSE firstAllocs
    /\ UNCHANGED <<allocator, uaf, freeLog, pool2, hl>>

Allocate == AllocateWith(MaxCap, Oracles)

\* the objects of the second handle that are in use
Held2 ==
    {DataOf(pool2.dir[i]) :
        i \in {j \in 1..Len(pool2.dir) :
                  pool2.dir[j] # NULL /\ heap[pool2.dir[j][1]].cells[pool2.dir[j][2]].in_use}}

\* the objects a caller can pass: NULL, a foreign pointer, a payload of the pool,
\* or an object of its other pool
Objects == {NULL, Foreign} \cup {DataOf(dir[i]) : i \in {j \in 1..Len(dir) : dir[j] # NULL}}
               \cup Held2

\* what the caller passes to deallocate, as the directory sees it
ArgKind(object) ==
    IF object = NULL THEN "null"
    ELSE IF \E i \in 1..Len(dir) : dir[i] # NULL /\ DataOf(dir[i]) = object
    THEN IF heap[object[1]].cells[object[2]].in_use THEN "in_use" ELSE "free"
    ELSE "foreign"

\* On a released handle only deallocate(handle, NULL) is modelled here: the test
\* at line 172 fails on object before the handle is read (the other calls on a
\* released handle are UseReleased).
Deallocate ==
    /\ Idle
    /\ \E object \in Objects, ub \in BOOLEAN :
         LET st == op_ll_deallocate_object(Start("deallocate"), allocator, object, ub)
         IN  /\ Released => object = NULL
             /\ ub => st.fault # "none"
             /\ Commit(st)
             /\ ret' = [Ret("deallocate", NULL) EXCEPT !.arg = ArgKind(object)]
             /\ held' = IF st.fault = "none" THEN held \ {object} ELSE held
    /\ firstAllocs' = IF Live THEN -1 ELSE firstAllocs
    /\ UNCHANGED <<grows, scans, allocator, uaf, failedAlloc, freeLog, pool2, hl>>

Deinitialize ==
    /\ Idle
    /\ ~Released
    /\ LET st == op_ll_deinitialize_allocator(Start("deinitialize"), allocator)
       IN  /\ Commit(st)
           /\ freeLog' = st.freeLog
           /\ held' = IF st.ok THEN {} ELSE held
    /\ ret' = Ret("deinitialize", NULL)
    /\ UNCHANGED <<grows, scans, allocator, uaf, failedAlloc, firstAllocs, pool2, hl>>

GetStats ==
    /\ Idle
    /\ ~Released
    /\ LET st == op_ll_get_allocator_stats(Start("get_stats"), allocator)
       IN  /\ Commit(st)
           /\ ret' = [Ret("get_stats", NULL) EXCEPT !.stats = st.stats]
    /\ UNCHANGED <<grows, scans, allocator, held, uaf, failedAlloc, freeLog, firstAllocs, pool2, hl>>

\* the caller takes the result of the call and goes on (an object it was given
\* it first fills: WriteObject)
Continue ==
    /\ fault = "none"
    /\ ret.op # "none"
    /\ ret.op = "allocate" => ret.ptr = NULL
    /\ ret' = NoRet
    /\ errs' = {}
    /\ grows' = 0
    /\ scans' = 0
    /\ UNCHANGED <<allocator, H, dir, heap, held, fault, uaf, failedAlloc,
                   growOK, badFree, doubleFree, freeLog, firstAllocs, pool2, hl>>

\* the caller stores non-zero data in the object it was just given, and goes on
WriteObject ==
    /\ fault = "none"
    /\ ret.op = "allocate"
    /\ ret.ptr # NULL
    /\ heap' = [heap EXCEPT ![ret.ptr[1]].cells[ret.ptr[2]].data = 1]
    /\ ret' = NoRet
    /\ errs' = {}
    /\ grows' = 0
    /\ scans' = 0
    /\ UNCHANGED <<allocator, H, dir, held, fault, uaf, failedAlloc,
                   growOK, badFree, doubleFree, freeLog, firstAllocs, pool2, hl>>

\* The four calls on a handle whose record deinitialize has released (deallocate
\* with a non-null object): each starts by reading the released record
\* (allocator->initialized, or ->maximum_objects in deallocate).  The read is
\* undefined: it may find the stale record (initialized = false; deallocate then
\* walks the released directory without a visible effect) or anything else.
UseReleased ==
    /\ Idle
    /\ Released
    /\ uaf' = TRUE
    /\ \E op \in {"allocate", "deallocate", "deinitialize", "get_stats"}, stale \in BOOLEAN :
         /\ ret' = [Ret(op, NULL) EXCEPT !.arg = IF op = "deallocate" THEN "foreign"
                                                 ELSE "none"]
         /\ IF stale
            THEN /\ fault' = "none"
                 /\ errs' = CASE op = "allocate" -> {159, 164}
                              [] op = "deinitialize" -> {227}
                              [] OTHER -> {}
            ELSE /\ fault' = "use_after_free"
                 /\ errs' = {}
    /\ UNCHANGED <<grows, scans, allocator, H, dir, heap, held, failedAlloc, growOK,
                   badFree, doubleFree, freeLog, firstAllocs, pool2, hl>>

(* --------------------------- a second handle --------------------------- *)
\* The caller makes a second pool and works on both (ll_test1 makes four).  Each
\* call is the same code given the other handle: the same operators on the second
\* handle's record and directory, and the one heap.
Base2 == SlotBlock(MaxCap)

\* the second pool, and the pool of the high-level interface, is not grown beyond
\* this
MaxCap2 == 2

Live2 == pool2.allocator # 0 /\ heap[pool2.allocator].live

Start2(op, hp) == [Start(op) EXCEPT !.H = pool2.H, !.dir = pool2.dir, !.heap = hp,
                                    !.base = Base2]

\* what a call on the second handle leaves: its record, its directory, what it
\* returned and reported, and the heap
Left2(st) == [pool |-> [pool2 EXCEPT !.H = st.H, !.dir = st.dir, !.rv = st.rv,
                                     !.stats = st.stats, !.errs = st.errs],
              heap |-> st.heap, a |-> st.a]

Initialized2(hp, mode) ==
    LET r == Left2(op_ll_initialize_allocator(Start2("initialize", hp), 1, 1, mode,
                                              <<>>))
    IN  [r EXCEPT !.pool.allocator = r.a]

Allocated2(hp) ==
    Left2(op_ll_allocate_object(Start2("allocate", hp), pool2.allocator, <<>>, FALSE))

Deallocated2(hp, object) ==
    Left2(op_ll_deallocate_object(Start2("deallocate", hp), pool2.allocator, object,
                                  FALSE))

Deinitialized2(hp) ==
    [Left2(op_ll_deinitialize_allocator(Start2("deinitialize", hp), pool2.allocator))
        EXCEPT !.pool.dir = <<>>]

Stats2(hp) == Left2(op_ll_get_allocator_stats(Start2("get_stats", hp), pool2.allocator))

\* what the calls on the second handle leave alone
Frame2 == UNCHANGED <<allocator, H, dir, held, ret, errs, fault, uaf, failedAlloc, grows,
                      scans, growOK, badFree, doubleFree, freeLog, firstAllocs, hl>>

Initialize2 ==
    /\ Idle
    /\ Live
    /\ pool2.allocator = 0
    /\ \E mode \in Modes : \E r \in {Initialized2(heap, mode)} :
         /\ pool2' = r.pool
         /\ heap' = r.heap
    /\ Frame2

Allocate2 ==
    /\ Idle
    /\ Live2
    /\ \E r \in {Allocated2(heap)} :
         /\ r.pool.H.maximum_objects <= MaxCap2
         /\ pool2' = r.pool
         /\ heap' = r.heap
    /\ Frame2

\* the second handle is given its own objects, or objects of the first
Deallocate2 ==
    /\ Idle
    /\ Live2
    /\ \E object \in Held2 \cup held : \E r \in {Deallocated2(heap, object)} :
         /\ pool2' = r.pool
         /\ heap' = r.heap
    /\ Frame2

Deinitialize2 ==
    /\ Idle
    /\ Live2
    /\ \E r \in {Deinitialized2(heap)} :
         /\ pool2' = r.pool
         /\ heap' = r.heap
    /\ Frame2

GetStats2 ==
    /\ Idle
    /\ Live2
    /\ \E r \in {Stats2(heap)} :
         /\ pool2' = r.pool
         /\ heap' = r.heap
    /\ Frame2

Next ==
    \/ Initialize
    \/ Allocate
    \/ Deallocate
    \/ Deinitialize
    \/ GetStats
    \/ WriteObject
    \/ Continue
    \/ UseReleased

Spec == Init /\ [][Next]_vars

\* One caller, two pools of one slot each that grow once at most, every heap
\* request succeeding: the calls of the first pool, then those of the second.
Initialize1 == InitializeWith({1}, {<<>>})

Allocate1 == AllocateWith(MaxCap2, {<<>>})

TwoNext ==
    \/ Initialize1
    \/ Allocate1
    \/ Deallocate
    \/ Deinitialize
    \/ GetStats
    \/ WriteObject
    \/ Continue
    \/ Initialize2
    \/ Allocate2
    \/ Deallocate2
    \/ Deinitialize2
    \/ GetStats2

TwoSpec == Init /\ [][TwoNext]_vars

(* ----------------------- the high-level interface ---------------------- *)
\* OP_HL_DECLARE_ALLOCATOR(TYPE, COUNT, MODE): the caller's allocator is
\* TYPE_allocator, and the wrappers are the only calls that assign it.  Every
\* heap request succeeds here.
\* the COUNT of the declaration
HLCount == 1

\* the wrappers create this many handles at most
MaxHandles == 2

\* the MODE of the declaration: fixed by the first call that uses it
HLModes == IF hl.mode = "none" THEN Modes ELSE {hl.mode}

\* TYPE_allocator = op_ll_initialize_allocator(sizeof(TYPE), COUNT, MODE); the
\* blocks of the n-th handle are named from n * Base2
initialize_TYPE_allocator(st, mode) ==
    [op_ll_initialize_allocator([st EXCEPT !.base = hl.made * Base2], MaxObjectSize,
                                HLCount, mode, <<>>) EXCEPT !.growOK = 0]

\* if (!initialized) { initialize_TYPE_allocator(); initialized = true; }
\* return op_ll_allocate_object(TYPE_allocator);
\* A handle that deinitialize has released is read by the engine: it finds the
\* stale record (initialized = false) or anything else.
allocate_TYPE(mode, moved, stale) ==
    LET s0 == [Start("allocate") EXCEPT !.a = allocator]
        s1 == IF hl.initialized THEN s0 ELSE initialize_TYPE_allocator(s0, mode)
    IN  IF s1.a # 0 /\ ~s1.heap[s1.a].live
        THEN IF stale THEN Report(Report(s1, 159), 164)
             ELSE [s1 EXCEPT !.fault = "use_after_free"]
        ELSE op_ll_allocate_object([s1 EXCEPT !.base = s1.a - HandleBlock], s1.a, <<>>,
                                   moved)

HLInitialize ==
    /\ Idle
    /\ hl.made < MaxHandles
    /\ \E mode \in HLModes :
         \E st \in {initialize_TYPE_allocator(Start("initialize"), mode)} :
            /\ Commit(st)
            /\ allocator' = st.a
            /\ ret' = Ret("initialize", <<st.a, 0, 0>>)
            /\ hl' = [hl EXCEPT !.made = @ + 1, !.mode = mode]
    /\ UNCHANGED <<grows, scans, held, uaf, failedAlloc, freeLog, firstAllocs, pool2>>

HLAllocate ==
    /\ Idle
    /\ hl.initialized \/ hl.made < MaxHandles
    /\ \E mode \in HLModes, moved \in BOOLEAN, stale \in BOOLEAN :
         \E st \in {allocate_TYPE(mode, moved, stale)} :
            LET released == hl.initialized /\ Released
            IN  /\ st.H.maximum_objects <= MaxCap2
                /\ moved \/ st.grows > 0
                /\ stale \/ released
                /\ Commit(st)
                /\ allocator' = st.a
                /\ ret' = [Ret("allocate", st.rv) EXCEPT !.prev = st.prev]
                /\ held' = IF st.rv # NULL THEN held \cup {st.rv} ELSE held
                /\ grows' = st.grows
                /\ scans' = st.scans
                /\ uaf' = (uaf \/ released)
                /\ hl' = [hl EXCEPT !.initialized = TRUE,
                                    !.made = IF hl.initialized THEN @ ELSE @ + 1,
                                    !.calls = IF @ = 0 THEN 1 ELSE 2,
                                    !.auto = IF hl.initialized THEN @ ELSE @ + 1,
                                    !.stale = @ \/ released,
                                    !.mode = mode]
    /\ UNCHANGED <<failedAlloc, freeLog, firstAllocs, pool2>>

\* The wrappers in any order; deallocate_TYPE, deinitialize_TYPE_allocator and the
\* low-level calls the header allows on TYPE_allocator are the calls of the engine
\* on the caller's allocator.
HLNext ==
    \/ HLInitialize
    \/ HLAllocate
    \/ Deallocate
    \/ Deinitialize
    \/ GetStats
    \/ WriteObject
    \/ Continue
    \/ UseReleased

HLSpec == Init /\ [][HLNext]_vars

(* ------------------------------ claims --------------------------------- *)
\* the last call was a deinitialize that took the initialized branch
DeinitDone == ret.op = "deinitialize" /\ errs = {} /\ fault = "none" /\ Released

InUse(e) == heap[e[1]].cells[e[2]].in_use

\* every directory slot is materialized and in use
AllInUse == \A i \in 1..Len(dir) : dir[i] # NULL /\ InUse(dir[i])

\* some materialized slot is not in use
SomeSlotFree == \E i \in 1..Len(dir) : dir[i] # NULL /\ ~InUse(dir[i])

\* the offsets at which chunks start: 0, C, 2C, 3C, ... (linear); 0, C, 2C, 4C, ... (doubling)
ChunkStarts ==
    LET C == H.initial_count
        below == 0..(H.maximum_objects - 1)
    IN  IF H.use_linear
        THEN {k * C : k \in below} \cap below
        ELSE {0} \cup ({C * 2^k : k \in below} \cap below)

\* C1: on an initialized handle the active_objects that get_stats returns is the
\* number of objects returned by allocate and not yet passed to deallocate.
C1_ActiveObjectsCountsOutstanding ==
    (ret.op = "get_stats" /\ Live /\ fault = "none")
        => ret.stats.active_objects = Cardinality(held)

\* C2: deinitialize on an initialized handle, after successful allocate calls and
\* deallocate calls, releases every block exactly once (none left allocated, none
\* released twice, no address that is not a block start), the directory and the
\* handle record included; under chunked layout the entries passed to free() are
\* exactly the chunk starts made at initialize and grow time.
C2_DeinitReleasesEveryBlockOnce ==
    (DeinitDone /\ ~failedAlloc) =>
        /\ \A b \in DOMAIN heap : ~heap[b].live
        /\ ~doubleFree
        /\ ~badFree
        /\ H.use_chunks =>
              /\ {heap[b].at : b \in {c \in DOMAIN heap : heap[c].kind = "chunk"}}
                     = ChunkStarts
              /\ {freeLog[j] : j \in 1..Len(freeLog)} = ChunkStarts

\* C2 witness: a doubling chunked pool of capacity 1 grown twice (chunks at 0, 1, 2)
\* has been deinitialized.
C2_Witness ==
    /\ DeinitDone
    /\ ~failedAlloc
    /\ H.use_chunks
    /\ ~H.use_linear
    /\ H.initial_count = 1
    /\ H.maximum_objects = 4

\* C3: once deinitialize has released the handle, every later call on it reports
\* through the error hook, returns its neutral result, and reads or writes no
\* released memory.
C3_CallsAfterDeinitAreClean ==
    Released =>
        /\ ~uaf
        /\ fault = "none"
        /\ ret.op \in {"allocate", "deallocate", "get_stats"} => errs # {}

\* C4: when the directory resize inside grow fails, allocate reports it, returns
\* NULL and leaves the handle and its directory exactly as they were.
C4_FailedResizeKeepsHandle ==
    [][(ret'.op = "allocate" /\ grows' = 1 /\ 377 \in errs')
          => (H' = H /\ dir' = dir /\ ret'.ptr = NULL)]_vars

\* C5: the first C allocate calls after initialize (no deallocate in between) leave
\* maximum_objects at C, and the (C+1)-th performs exactly one growth step.
C5_GrowthExactlyAtCapacity ==
    (Live /\ fault = "none") =>
        /\ firstAllocs \in 0..H.initial_count => H.maximum_objects = H.initial_count
        /\ (ret.op = "allocate" /\ firstAllocs = H.initial_count + 1) => grows = 1

\* C6: under doubling growth, after n successful growth steps maximum_objects is
\* C * 2^n.
C6_DoublingCapacity ==
    (Live /\ ~H.use_linear) => H.maximum_objects = H.initial_count * 2^growOK

\* C7: under linear growth, after n successful growth steps maximum_objects is
\* C + n*C.
C7_LinearCapacity ==
    (Live /\ H.use_linear) =>
        H.maximum_objects = H.initial_count + growOK * H.initial_count

\* C8: an allocate that finds a materialized slot not in use leaves maximum_objects
\* unchanged, and allocate grows the pool only when every directory slot is
\* materialized and in use.
C8_GrowsOnlyWhenFull ==
    [][(Live /\ ret'.op = "allocate")
          => /\ SomeSlotFree => H'.maximum_objects = H.maximum_objects
             /\ grows' > 0 => AllInUse]_vars

\* C9: the payload of every non-null pointer allocate returns is all zero at the
\* moment of return, and its slot's flag is in-use.
C9_ReturnedPayloadIsZeroed ==
    (ret.op = "allocate" /\ ret.ptr # NULL) =>
        LET e == EntryOf(ret.ptr)
        IN  heap[e[1]].cells[e[2]] = [in_use |-> TRUE, data |-> 0]

\* C9 witness: allocate has returned a reused slot in which the previous holder
\* had stored non-zero data.
C9_Witness ==
    /\ ret.op = "allocate"
    /\ ret.ptr # NULL
    /\ ret.prev = 1
    /\ heap[ret.ptr[1]].cells[ret.ptr[2]].data = 0

\* C10: allocate never returns an object that is still held, and every held
\* object sits in exactly one directory slot, flagged in-use.
C10_NeverReturnsHeldObject ==
    [][(ret'.op = "allocate" /\ ret'.ptr # NULL)
          => /\ ret'.ptr \notin held
             /\ \A p \in held' :
                   /\ InUse(EntryOf(p))'
                   /\ Cardinality({i \in 1..Len(dir') : DataOf(dir'[i]) = p}) = 1]_vars

\* C10 witness: allocate has returned a slot while two other objects were held.
C10_Witness ==
    /\ ret.op = "allocate"
    /\ ret.ptr # NULL
    /\ Cardinality(held) = 3
    /\ ret.prev = 1

\* C11: when a heap request of initialize fails (the handle record, the directory or
\* the first chunk), initialize returns NULL, has called the error hook, and has
\* released every block it obtained in that call.
C11_FailedInitializeCleansUp ==
    (ret.op = "initialize" /\ ret.failed) =>
        /\ ret.ptr = NULL
        /\ allocator = 0
        /\ errs # {}
        /\ \A b \in DOMAIN heap : ~heap[b].live
        /\ ~doubleFree
        /\ ~badFree

\* C11 witness: initialize failed at the first chunk, after it had obtained the
\* handle record and the directory.
C11_Witness ==
    /\ ret.op = "initialize"
    /\ ret.failed
    /\ 333 \in errs
    /\ DOMAIN heap = {HandleBlock, DirBlock}

\* C12: whenever allocate returns NULL the error hook has been called in that call
\* (line 164, after line 159 for a null or uninitialized handle or line 153 for a
\* failed growth); a null handle always gets NULL; and a call that took the
\* invalid-handle branch changed nothing.  (A handle is uninitialized only once
\* deinitialize has released it; the case is then the call that finds the stale
\* record, fault = "none".)
C12_NullAllocateIsReported ==
    [][(ret'.op = "allocate" /\ fault' = "none")
          => /\ allocator = 0 => ret'.ptr = NULL
             /\ ret'.ptr = NULL =>
                   /\ 164 \in errs'
                   /\ 159 \in errs' \/ 153 \in errs'
                   /\ (allocator = 0 \/ Released) <=> 159 \in errs'
                   /\ 159 \in errs' =>
                         /\ H' = H
                         /\ dir' = dir
                         /\ heap' = heap
                         /\ held' = held]_vars

\* C12 witness: allocate on an initialized handle has returned NULL after a failed
\* growth.
C12_Witness ==
    /\ ret.op = "allocate"
    /\ ret.ptr = NULL
    /\ Live
    /\ fault = "none"
    /\ grows > 0
    /\ errs = {377, 153, 164}

\* C13: when the only growth attempt of an allocate call fails (the directory
\* resize, or the new chunk), allocate returns NULL and maximum_objects and the
\* directory are what they were before the call.
C13_FailedGrowthIsRolledBack ==
    [][(ret'.op = "allocate" /\ Live /\ fault' = "none" /\ grows' = 1
           /\ (377 \in errs' \/ 333 \in errs'))
          => /\ ret'.ptr = NULL
             /\ H'.maximum_objects = H.maximum_objects
             /\ H'.pool # 0
             /\ dir' = dir]_vars

\* C14: deallocate given a null handle or a null object calls the error hook (line
\* 185) and changes nothing: no handle field, no directory entry, no block, no
\* slot flag.
C14_NullDeallocateReportsOnly ==
    [][(ret'.op = "deallocate" /\ (allocator = 0 \/ ret'.arg = "null"))
          => /\ errs' = {185}
             /\ fault' = "none"
             /\ uaf' = uaf
             /\ H' = H
             /\ dir' = dir
             /\ heap' = heap
             /\ held' = held]_vars

\* C14 witness: deallocate(handle, NULL) has returned on an initialized handle with
\* an object outstanding.
C14_Witness ==
    /\ ret.op = "deallocate"
    /\ ret.arg = "null"
    /\ Live
    /\ held # {}
    /\ errs = {185}

\* C15: deallocate on an initialized handle with a foreign pointer, or with a
\* pointer whose slot is already not in use, is a no-op: it changes no flag, no
\* directory entry and no capacity, reports nothing, and applies no member access
\* to a directory entry that has no backing storage.
C15_ForeignOrDoubleFreeIsNoOp ==
    [][(ret'.op = "deallocate" /\ Live /\ ret'.arg \in {"foreign", "free"})
          => /\ fault' = "none"
             /\ errs' = {}
             /\ H' = H
             /\ dir' = dir
             /\ heap' = heap]_vars

C18_IndividualSlotsFormPrefix ==
    (Live /\ fault = "none" /\ H.pool # 0 /\ ~H.use_chunks) =>
        \A i \in 1..Len(dir) : dir[i] # NULL => \A j \in 1..i : dir[j] # NULL

\* C19: under chunked layout every directory slot of an initialized handle has
\* backing storage, and that storage is part of a chunk.
C19_ChunkedSlotsAllInChunks ==
    (Live /\ fault = "none" /\ H.pool # 0 /\ H.use_chunks) =>
        /\ Len(dir) = H.maximum_objects
        /\ \A i \in 1..Len(dir) : dir[i] # NULL /\ heap[dir[i][1]].kind = "chunk"

\* C20: one allocate call makes at most one growth step and at most two scans of
\* the directory.
C20_OneGrowthTwoScans ==
    (ret.op = "allocate" /\ fault = "none") => (grows <= 1 /\ scans <= 2)

\* the blocks of the first handle, and those of the second
Own(hp) == [b \in {c \in DOMAIN hp : c < Base2} |-> hp[b]]

Own2(hp) == [b \in {c \in DOMAIN hp : c >= Base2} |-> hp[b]]

\* the step leaves the second handle as r says
Same2(r) == pool2' = r.pool /\ Own2(heap') = r.heap

\* the step is a call on the second handle made with its blocks alone in the heap
Solo2 ==
    LET hp == Own2(heap)
    IN  \/ pool2.allocator = 0 /\ \E mode \in Modes : \E r \in {Initialized2(hp, mode)} : Same2(r)
        \/ Live2 /\ \E r \in {Allocated2(hp)} : Same2(r)
        \/ Live2 /\ \E object \in Held2 \cup held : \E r \in {Deallocated2(hp, object)} : Same2(r)
        \/ Live2 /\ \E r \in {Deinitialized2(hp)} : Same2(r)
        \/ Live2 /\ \E r \in {Stats2(hp)} : Same2(r)

\* the step leaves the first handle, and returns, as st says
Same1(st) ==
    /\ H' = st.H
    /\ dir' = st.dir
    /\ Own(heap') = st.heap
    /\ ret'.ptr = st.rv
    /\ ret'.stats = st.stats
    /\ errs' = st.errs
    /\ fault' = st.fault

\* the step is a call on the first handle made with its blocks alone in the heap
Solo1 ==
    LET hp == Own(heap)
    IN  CASE ret'.op = "allocate" ->
               \E moved \in BOOLEAN :
                  \E st \in {op_ll_allocate_object([Start("allocate") EXCEPT !.heap = hp],
                                                    allocator, <<>>, moved)} : Same1(st)
          [] ret'.op = "deallocate" ->
               \E object \in Objects, ub \in BOOLEAN :
                  /\ Released => object = NULL
                  /\ \E st \in {op_ll_deallocate_object(
                                    [Start("deallocate") EXCEPT !.heap = hp],
                                    allocator, object, ub)} : Same1(st)
          [] ret'.op = "deinitialize" ->
               \E st \in {op_ll_deinitialize_allocator(
                              [Start("deinitialize") EXCEPT !.heap = hp], allocator)} :
                  Same1([st EXCEPT !.dir = IF st.ok THEN <<>> ELSE @])
          [] ret'.op = "get_stats" ->
               \E st \in {op_ll_get_allocator_stats(
                              [Start("get_stats") EXCEPT !.heap = hp], allocator)} :
                  Same1(st)
          [] OTHER -> TRUE

\* C17: with two pools made by separate initialize calls, a call on one handle
\* leaves the other handle's record, directory and blocks as they were, and does
\* to its own handle, and returns, what it does when the other pool's blocks are
\* not in the heap at all.
C17_HandlesAreIndependent ==
    [][IF Idle /\ ret'.op = "none"
       THEN /\ allocator' = allocator
            /\ H' = H
            /\ dir' = dir
            /\ held' = held
            /\ Own(heap') = Own(heap)
            /\ Solo2
       ELSE /\ pool2' = pool2
            /\ Own2(heap') = Own2(heap)
            /\ Solo1]_vars

\* C17 witness: with both pools grown and an object outstanding in each, deallocate
\* on the first handle has returned from a pointer that is not in its directory.
C17_Witness ==
    /\ ret.op = "deallocate"
    /\ ret.arg = "foreign"
    /\ Live
    /\ Live2
    /\ H.maximum_objects = 2
    /\ pool2.H.maximum_objects = 2
    /\ held # {}
    /\ Held2 # {}

\* the lowest directory slot (1-based) that has no backing storage or is flagged
\* not in use; 0 when every slot is held
FirstAvailable ==
    LET cand == {i \in 1..Len(dir) : dir[i] = NULL \/ ~InUse(dir[i])}
    IN  IF cand = {} THEN 0 ELSE CHOOSE i \in cand : \A j \in cand : i <= j

\* C21: a successful allocate on an initialized handle returns the payload of the
\* lowest-index directory slot that, when the call was made, had no backing storage
\* or was flagged not-in-use.
C21_ReturnsLowestAvailableSlot ==
    [][(ret'.op = "allocate" /\ ret'.ptr # NULL /\ Live /\ FirstAvailable # 0)
          => /\ dir'[FirstAvailable] # NULL
             /\ ret'.ptr = DataOf(dir'[FirstAvailable])]_vars

\* C22: while the handle is initialized (until deinitialize releases it), a
\* directory slot that refers to a backing entry refers to that same entry after
\* every call, the entry's block is not released, and so every pointer that
\* allocate returned stays valid.
C22_SlotsKeepTheirStorage ==
    [][(Live /\ Live')
          => /\ \A i \in 1..Len(dir) :
                   dir[i] # NULL => /\ i <= Len(dir')
                                    /\ dir'[i] = dir[i]
                                    /\ heap'[dir[i][1]].live
             /\ \A p \in held : heap'[p[1]].live]_vars

\* active_objects as get_stats counts it on the handle
ActiveObjects == CountFrom([H |-> H, dir |-> dir, heap |-> heap], 1)

\* C23: deallocate of a pointer that matches a directory slot of an initialized
\* handle changes the in-use flag of that slot to not-in-use and nothing else: the
\* handle's fields, the directory entries, the blocks and the other flags are as
\* before, and active_objects is one less if the slot was in use (unchanged if it
\* was not).
C23_DeallocateClearsOneFlag ==
    [][(ret'.op = "deallocate" /\ Live /\ ret'.arg \in {"in_use", "free"})
          => /\ H' = H
             /\ dir' = dir
             /\ ret'.arg = "free" => (heap' = heap /\ ActiveObjects' = ActiveObjects)
             /\ ret'.arg = "in_use" =>
                   \E p \in held :
                      /\ held' = held \ {p}
                      /\ heap' = [heap EXCEPT ![p[1]].cells[p[2]].in_use = FALSE]
                      /\ ActiveObjects' = ActiveObjects - 1]_vars

\* C24: while the handle is initialized, maximum_objects equals the number of
\* entries of the directory and never decreases, it changes only in an allocate
\* call that made a growth step, and object_size, initial_count and the layout
\* flags stay as initialize set them.
C24_CapacityOnlyGrows ==
    [][/\ Live' => Len(dir') = H'.maximum_objects
       /\ (Live /\ Live') =>
             /\ H'.maximum_objects >= H.maximum_objects
             /\ H'.maximum_objects # H.maximum_objects
                   => (ret'.op = "allocate" /\ grows' > 0)
             /\ H'.object_size = H.object_size
             /\ H'.initial_count = H.initial_count
             /\ H'.use_chunks = H.use_chunks
             /\ H'.use_linear = H.use_linear]_vars

\* C25: every chunk, made by initialize or by a growth step, is one block whose
\* requested size is object_count * entry_size bytes, object_count being the number
\* of slots the chunk serves and entry_size the flag header plus object_size.
C25_ChunkSizeIsCountTimesEntry ==
    \A b \in DOMAIN heap :
       heap[b].kind = "chunk" => heap[b].bytes = heap[b].n * (SizeofAb + H.object_size)

\* C26: with the wrappers of OP_HL_DECLARE_ALLOCATOR called in any order,
\* allocate_TYPE creates the handle on its first invocation and on no later one,
\* every handle the wrappers created and that is not deinitialized is the one
\* TYPE_allocator refers to, and allocate_TYPE never gives the engine a handle that
\* deinitialize has released.
C26_WrappersKeepOneHandle ==
    /\ hl.auto = IF hl.calls = 0 THEN 0 ELSE 1
    /\ \A b \in DOMAIN heap : (heap[b].kind = "handle" /\ heap[b].live) => b = allocator
    /\ ~hl.stale
====
